---- MODULE Spec2Model ----
(***************************************************************************)
(* Model of useDnDHooks (packages/@react-spectrum/dnd/src/useDnDHooks.ts). *)
(*                                                                         *)
(* The hook keeps three refs (isDragging, isInternalDropRef,               *)
(* lastDropTarget), wraps the caller's onDragStart / onDragEnd, builds a   *)
(* default async onDrop and a default getDropOperation, and merges the     *)
(* caller's options into the arguments of the downstream hooks.            *)
(*                                                                         *)
(* JavaScript objects are functions from property names to tagged values;  *)
(* a property that is absent is not in the DOMAIN, a property that is      *)
(* present with the value undefined maps to Undefined.                     *)
(***************************************************************************)
EXTENDS Integers, Sequences, FiniteSets, TLC

VARIABLES
    options,            \* the DnDOptions object given to useDnDHooks
    isDragging,         \* isDragging.current
    isInternalDropRef,  \* isInternalDropRef.current
    lastDropTarget,     \* lastDropTarget.current
    dragSession,        \* the drags of this collection: "idle" (none yet), "dragging", "ended"
    sessionDrop,        \* history: target of the last drop begun during the current or last drag
    drops,              \* the suspended onDrop invocations, in the order they began,
                        \* and the invocations the last step completed
    calls,              \* the calls the last step made to the caller's functions, in order
    lastGetOp,          \* the last call of the default getDropOperation and its result
    dragStateOptions,   \* argument last passed to useDraggableCollectionState
    dropStateOptions,   \* argument last passed to useDroppableCollectionState
    dropCollectionOptions \* argument last passed to useDroppableCollection

vars == <<options, isDragging, isInternalDropRef, lastDropTarget, dragSession,
          sessionDrop, drops, calls, lastGetOp, dragStateOptions, dropStateOptions,
          dropCollectionOptions>>

refs == <<isDragging, isInternalDropRef, lastDropTarget>>
hookArgs == <<dragStateOptions, dropStateOptions, dropCollectionOptions>>

(***************************************************************************)
(* Bounds of the model.                                                    *)
(***************************************************************************)
\* onDrop invocations suspended at the same time
MaxDrops == 1
\* items of one drop event
MaxItems == 1

(***************************************************************************)
(* JavaScript values.                                                      *)
(***************************************************************************)
Undefined == [tag |-> "undefined"]
UserFn(k) == [tag |-> "fn", id |-> k]
HookFn(k) == [tag |-> "fn", id |-> "hook:" \o k]
EmptyObject == [k \in {} |-> Undefined]

\* obj[k] as JavaScript reads it: undefined when the property is absent
Get(obj, k) == IF k \in DOMAIN obj THEN obj[k] ELSE Undefined

\* truthiness of the values an option can hold
Truthy(v) == v.tag # "undefined"

\* {...a, ...b}: every own property of b overrides a, also one whose value is undefined
Spread(a, b) ==
    [k \in (DOMAIN a) \cup (DOMAIN b) |-> IF k \in DOMAIN b THEN b[k] ELSE a[k]]

(***************************************************************************)
(* Drop targets, drag types, items and drop events.                        *)
(***************************************************************************)
Keys == {"k1", "k2"}
DropPositions == {"on", "before", "after"}
RootTarget == [type |-> "root"]
ItemTarget(k, p) == [type |-> "item", key |-> k, dropPosition |-> p]
Targets == {RootTarget} \cup {ItemTarget(k, p) : k \in Keys, p \in DropPositions}
NullTarget == [type |-> "null"]

Types == {"text/plain", "l"}
DropOperations == {"move", "copy"}

\* a dropped item: its kind and the set of types it carries
ItemSet ==
    {[kind |-> "text", types |-> {"text/plain"}],
     [kind |-> "text", types |-> {"l", "text/plain"}],
     [kind |-> "file", types |-> {"text/plain"}]}

\* the text item number i of a drop yields for type t
Text(i, t) == <<i, t>>

\* a DroppableCollectionDropEvent
DropEvents ==
    [target : Targets \ {ItemTarget("k2", p) : p \in DropPositions},
     items : UNION {[1..n -> ItemSet] : n \in 1..MaxItems},
     dropOperation : {"move"}]

(***************************************************************************)
(* The options the caller can pass.                                        *)
(***************************************************************************)
DropHandlerKeys == {"onInsert", "onReorder", "onRootDrop", "onItemDrop"}

\* the objects that give a caller's function to some of the keys
OptionsOver(keys) == {[k \in S |-> UserFn(k)] : S \in SUBSET keys}

\* the caller provides the four drop handlers and the two drag callbacks, or none of them
CallbackObjects ==
    {EmptyObject, [k \in DropHandlerKeys \cup {"onDragStart", "onDragEnd"} |-> UserFn(k)]}

AcceptedLists == {<<"l", "text/plain">>}
AcceptedObjects ==
    {EmptyObject} \cup
    {("acceptedDragTypes" :> [tag |-> "list", v |-> l]) : l \in AcceptedLists}

EventOptions ==
    {c @@ o @@ a : c \in CallbackObjects, o \in OptionsOver({"onDrop"}), a \in AcceptedObjects}

(***************************************************************************)
(* useDnDHooks: the destructuring of options.                              *)
(***************************************************************************)
\* acceptedDragTypes = 'all' : the default applies when the value is undefined
acceptedDragTypes ==
    IF Get(options, "acceptedDragTypes").tag # "undefined"
    THEN options["acceptedDragTypes"]
    ELSE [tag |-> "str", v |-> "all"]

onDropProp == Get(options, "onDrop")

\* the values `for (... of x)` yields: the elements of an array, the characters of a string
StringChars(s) == IF s = "all" THEN <<"a", "l", "l">> ELSE <<>>
IterationOf(x) == IF x.tag = "str" THEN StringChars(x.v) ELSE x.v

\* what the refs hold when a caller's function is called
RefsNow(d, t, i) == [isDragging |-> d, lastDropTarget |-> t, isInternalDropRef |-> i]

Call(fn, d, args, r) == [fn |-> fn, drop |-> d, args |-> args, refs |-> r]

\* the invocations of onDrop that are suspended at an await
IsSuspended(rec) == rec.pc = "await"
Suspended == SelectSeq(drops, IsSuspended)

(***************************************************************************)
(* dragHooks: the wrappers given to useDraggableCollectionState.           *)
(***************************************************************************)
\* onDragStart also clearing what the last drop left in the refs
onDragStartResets ==
    /\ dragSession # "dragging"
    /\ dragSession' = "dragging"
    /\ sessionDrop' = NullTarget
    /\ isDragging' = TRUE
    /\ isInternalDropRef' = FALSE
    /\ lastDropTarget' = NullTarget
    /\ calls' = IF Truthy(Get(options, "onDragStart"))
                THEN <<Call("onDragStart", 0, <<>>, RefsNow(TRUE, NullTarget, FALSE))>>
                ELSE <<>>
    /\ drops' = Suspended
    /\ UNCHANGED <<options, lastGetOp, hookArgs>>

onDragStart ==
    /\ dragSession # "dragging"
    /\ dragSession' = "dragging"
    /\ sessionDrop' = NullTarget
    /\ isDragging' = TRUE
    /\ calls' = IF Truthy(Get(options, "onDragStart"))
                THEN <<Call("onDragStart", 0, <<>>,
                            RefsNow(TRUE, lastDropTarget, isInternalDropRef))>>
                ELSE <<>>
    /\ drops' = Suspended
    /\ UNCHANGED <<options, isInternalDropRef, lastDropTarget, lastGetOp, hookArgs>>

\* onDragEnd resetting the two refs before it calls the caller's onDragEnd
onDragEndResetFirst ==
    /\ dragSession = "dragging"
    /\ dragSession' = "ended"
    /\ isDragging' = FALSE
    /\ isInternalDropRef' = FALSE
    /\ lastDropTarget' = NullTarget
    /\ calls' = IF Truthy(Get(options, "onDragEnd"))
                THEN <<Call("onDragEnd", 0, <<NullTarget, FALSE>>,
                            RefsNow(FALSE, NullTarget, FALSE))>>
                ELSE <<>>
    /\ drops' = Suspended
    /\ UNCHANGED <<options, sessionDrop, lastGetOp, hookArgs>>

onDragEnd ==
    /\ dragSession = "dragging"
    /\ dragSession' = "ended"
    /\ isDragging' = FALSE
    /\ calls' = IF Truthy(Get(options, "onDragEnd"))
                THEN <<Call("onDragEnd", 0, <<lastDropTarget, isInternalDropRef>>,
                            RefsNow(FALSE, lastDropTarget, isInternalDropRef))>>
                ELSE <<>>
    /\ isInternalDropRef' = FALSE
    /\ lastDropTarget' = NullTarget
    /\ drops' = Suspended
    /\ UNCHANGED <<options, sessionDrop, lastGetOp, hookArgs>>

(***************************************************************************)
(* The default onDrop.  An invocation runs synchronously up to its first   *)
(* `await item.getText(...)`, is resumed once per awaited text, and        *)
(* dispatches to one of the caller's handlers after the loops.             *)
(*                                                                         *)
(* Position p of the nested loops stands for item ((p-1) div n) + 1 and    *)
(* accepted type ((p-1) mod n) + 1, n being the number of values the inner *)
(* loop iterates over.                                                     *)
(***************************************************************************)
ItemAt(acc, p) == ((p - 1) \div Len(acc)) + 1
TypeAt(acc, p) == acc[((p - 1) % Len(acc)) + 1]

\* the test of the inner loop without the check of the item's kind
ReadsTextAnyKind(items, acc, p) ==
    TypeAt(acc, p) \in items[ItemAt(acc, p)].types

\* item.kind === 'text' && item.types.has(acceptedType)
ReadsText(items, acc, p) ==
    /\ items[ItemAt(acc, p)].kind = "text"
    /\ TypeAt(acc, p) \in items[ItemAt(acc, p)].types

\* the first position from `from` on at which the loops await getText; 0 when there is none
NextAwait(items, acc, from) ==
    LET reads == {q \in from..(Len(items) * Len(acc)) : ReadsText(items, acc, q)}
    IN  IF reads = {} THEN 0 ELSE CHOOSE q \in reads : \A r \in reads : q <= r

\* SelectHandler with the last two branches exchanged
SelectHandlerSwapped(target, isInternalDrop) ==
    IF target.type = "root" THEN "onRootDrop"
    ELSE IF target.dropPosition = "on" THEN "onItemDrop"
    ELSE IF isInternalDrop THEN "onInsert"
    ELSE "onReorder"

\* the branch the if/else chain after the loops takes
SelectHandler(target, isInternalDrop) ==
    IF target.type = "root" THEN "onRootDrop"
    ELSE IF target.dropPosition = "on" THEN "onItemDrop"
    ELSE IF isInternalDrop THEN "onReorder"
    ELSE "onInsert"

\* the arguments each handler is called with
HandlerArgs(h, e, dataList) ==
    CASE h = "onRootDrop" -> <<dataList, e.dropOperation>>
      [] h = "onItemDrop" -> <<dataList, e.dropOperation, e.target.key>>
      [] h = "onReorder"  -> <<dataList, e.target.key, e.target.dropPosition>>
      [] h = "onInsert"   -> <<dataList, e.dropOperation, e.target.key, e.target.dropPosition>>

\* the dispatch reading isDragging.current instead of the local variable
IsInternalDropNow(rec) == isDragging

\* the local variable isInternalDrop, as the dispatch reads it
IsInternalDropOf(rec) == rec.isInternalDrop

\* the dispatch with the last `else` missing: a drop on an item goes on to onInsert
DispatchCallsFallThrough(d, rec, dataList, h, r) ==
    (IF Truthy(Get(options, h))
     THEN <<Call(h, d, HandlerArgs(h, rec.e, dataList), r)>>
     ELSE <<>>)
    \o (IF h = "onItemDrop" /\ Truthy(Get(options, "onInsert"))
        THEN <<Call("onInsert", d, HandlerArgs("onInsert", rec.e, dataList), r)>>
        ELSE <<>>)

\* the calls the dispatch makes: calling a handler that is undefined throws a TypeError
DispatchCalls(d, rec, dataList, h, r) ==
    IF Truthy(Get(options, h))
    THEN <<Call(h, d, HandlerArgs(h, rec.e, dataList), r)>>
    ELSE <<>>

\* the loops from position `from` on, with dataList as collected so far: the
\* invocation either suspends at the next await or dispatches; r is what the
\* refs hold at that moment
RunLoops(d, rec, from, dataList, r) ==
    LET p == NextAwait(rec.e.items, IterationOf(acceptedDragTypes), from)
        h == SelectHandler(rec.e.target, IsInternalDropOf(rec))
    IN  IF p # 0
        THEN [rec |-> [rec EXCEPT !.pc = "await", !.pos = p, !.dataList = dataList],
              newCalls |-> <<>>]
        ELSE [rec |-> [rec EXCEPT !.pc = IF Truthy(Get(options, h)) THEN "done" ELSE "threw",
                                  !.pos = 0, !.dataList = dataList, !.selected = h],
              newCalls |-> DispatchCalls(d, rec, dataList, h, r)]

\* the branch `if (onDropProp) { onDropProp(e) }`
RunUserOnDrop(d, rec, r) ==
    [rec |-> [rec EXCEPT !.pc = "done"],
     newCalls |-> <<Call("onDrop", d, <<rec.e>>, r)>>]

\* onDrop running the default loops and dispatch whether or not onDropProp is given
onDropBodyAlwaysDefault(d, rec, r) == RunLoops(d, rec, 1, <<>>, r)

\* onDrop after its first three lines, up to its first await (or its end)
onDropBody(d, rec, r) ==
    IF Truthy(onDropProp) THEN RunUserOnDrop(d, rec, r) ELSE RunLoops(d, rec, 1, <<>>, r)

\* onDrop is called with event e
onDrop(e) ==
    /\ isInternalDropRef' = isDragging
    /\ lastDropTarget' = e.target
    /\ sessionDrop' = IF dragSession = "dragging" THEN e.target ELSE sessionDrop
    /\ LET d == Len(Suspended) + 1
           rec == [e |-> e, isInternalDrop |-> isDragging, began |-> dragSession,
                   pc |-> "start", pos |-> 0, dataList |-> <<>>, selected |-> "none"]
           out == onDropBody(d, rec, RefsNow(isDragging, e.target, isDragging))
       IN  /\ Len(Suspended) + (IF IsSuspended(out.rec) THEN 1 ELSE 0) <= MaxDrops
           /\ drops' = Append(Suspended, out.rec)
           /\ calls' = out.newCalls
    /\ UNCHANGED <<options, isDragging, dragSession, lastGetOp, hookArgs>>

\* the promise of the getText that the d-th suspended invocation awaits resolves:
\* it pushes the text and runs on to its next await or to the dispatch
getTextResolved(d) ==
    /\ d \in 1..Len(Suspended)
    /\ LET rec == Suspended[d]
           acc == IterationOf(acceptedDragTypes)
           data == Text(ItemAt(acc, rec.pos), TypeAt(acc, rec.pos))
           out == RunLoops(d, rec, rec.pos + 1, Append(rec.dataList, data),
                           RefsNow(isDragging, lastDropTarget, isInternalDropRef))
       IN  /\ drops' = [Suspended EXCEPT ![d] = out.rec]
           /\ calls' = out.newCalls
    /\ UNCHANGED <<options, refs, dragSession, sessionDrop, lastGetOp, hookArgs>>

(***************************************************************************)
(* The default getDropOperation.                                           *)
(***************************************************************************)
isValidDropTarget == Get(options, "isValidDropTarget")

\* acceptedDragTypes.includes(type), acceptedDragTypes being an array
Includes(list, type) == \E n \in 1..Len(list) : list[n] = type

\* acceptedDragTypes === 'all' || draggedTypes.every(type => acceptedDragTypes.includes(type))
TypesAccepted(types) ==
    \/ acceptedDragTypes.tag = "str" /\ acceptedDragTypes.v = "all"
    \/ \A type \in types : Includes(acceptedDragTypes.v, type)

\* allowedOperations[0]
FirstOf(allowedOperations) ==
    IF Len(allowedOperations) = 0 THEN "undefined" ELSE allowedOperations[1]

\* getDropOperation with the reorder clause testing onInsert instead of onReorder
getDropOperationReorderByInsert(target, types, allowedOperations) ==
    IF /\ TypesAccepted(types)
       /\ \/ /\ Truthy(Get(options, "onInsert"))
             /\ target.type = "item"
             /\ ~isDragging
             /\ (target.dropPosition = "before" \/ target.dropPosition = "after")
          \/ /\ Truthy(Get(options, "onInsert"))
             /\ target.type = "item"
             /\ isDragging
             /\ (target.dropPosition = "before" \/ target.dropPosition = "after")
          \/ /\ Truthy(Get(options, "onRootDrop"))
             /\ target.type = "root"
             /\ ~isDragging
          \/ /\ Truthy(Get(options, "onItemDrop"))
             /\ target.type = "item"
             /\ target.dropPosition = "on"
             /\ (~Truthy(isValidDropTarget) \/ target.key \in isValidDropTarget.v)
    THEN FirstOf(allowedOperations)
    ELSE "cancel"

\* getDropOperation without the `!isDragging.current` of the root clause
getDropOperationRootInDrag(target, types, allowedOperations) ==
    IF /\ TypesAccepted(types)
       /\ \/ /\ Truthy(Get(options, "onInsert"))
             /\ target.type = "item"
             /\ ~isDragging
             /\ (target.dropPosition = "before" \/ target.dropPosition = "after")
          \/ /\ Truthy(Get(options, "onReorder"))
             /\ target.type = "item"
             /\ isDragging
             /\ (target.dropPosition = "before" \/ target.dropPosition = "after")
          \/ /\ Truthy(Get(options, "onRootDrop"))
             /\ target.type = "root"
          \/ /\ Truthy(Get(options, "onItemDrop"))
             /\ target.type = "item"
             /\ target.dropPosition = "on"
             /\ (~Truthy(isValidDropTarget) \/ target.key \in isValidDropTarget.v)
    THEN FirstOf(allowedOperations)
    ELSE "cancel"

getDropOperation(target, types, allowedOperations) ==
    IF /\ TypesAccepted(types)
       /\ \/ /\ Truthy(Get(options, "onInsert"))
             /\ target.type = "item"
             /\ ~isDragging
             /\ (target.dropPosition = "before" \/ target.dropPosition = "after")
          \/ /\ Truthy(Get(options, "onReorder"))
             /\ target.type = "item"
             /\ isDragging
             /\ (target.dropPosition = "before" \/ target.dropPosition = "after")
          \/ /\ Truthy(Get(options, "onRootDrop"))
             /\ target.type = "root"
             /\ ~isDragging
          \/ /\ Truthy(Get(options, "onItemDrop"))
             /\ target.type = "item"
             /\ target.dropPosition = "on"
             /\ (~Truthy(isValidDropTarget) \/ target.key \in isValidDropTarget.v)
    THEN FirstOf(allowedOperations)
    ELSE "cancel"

\* the droppable collection state asks for the operation of a drop on target
getDropOperationCalled(target, types, allowedOperations) ==
    /\ lastGetOp' = [called |-> TRUE, target |-> target, types |-> types,
                     allowedOperations |-> allowedOperations, isDragging |-> isDragging,
                     result |-> getDropOperation(target, types, allowedOperations)]
    /\ drops' = Suspended
    /\ calls' = <<>>
    /\ UNCHANGED <<options, refs, dragSession, sessionDrop, hookArgs>>

(***************************************************************************)
(* dragHooks and dropHooks: the options merged into the downstream hooks.  *)
(***************************************************************************)
\* getItems: () => []
DefaultGetItems == HookFn("getItems")

\* {getItems: () => [], ...props, ...options, onDragStart(e) {...}, onDragEnd(e) {...}}
DraggableCollectionStateArgs(props) ==
    Spread(Spread(Spread(("getItems" :> DefaultGetItems), props), options),
           [k \in {"onDragStart", "onDragEnd"} |-> HookFn(k)])

\* {getDropOperation, ...props, ...options}
DroppableCollectionStateArgs(props) ==
    Spread(Spread(("getDropOperation" :> HookFn("getDropOperation")), props), options)

\* {onDrop, ...props, ...options}: the wrapper put first, so that the spreads override it
DroppableCollectionArgsOnDropFirst(props) ==
    Spread(Spread(("onDrop" :> HookFn("onDrop")), props), options)

\* {...props, ...options, onDrop}
DroppableCollectionArgs(props) ==
    Spread(Spread(props, options), ("onDrop" :> HookFn("onDrop")))

useDraggableCollectionState(props) ==
    /\ dragStateOptions' = DraggableCollectionStateArgs(props)
    /\ UNCHANGED <<options, refs, dragSession, sessionDrop, drops, calls, lastGetOp,
                   dropStateOptions, dropCollectionOptions>>

useDroppableCollectionState(props) ==
    /\ dropStateOptions' = DroppableCollectionStateArgs(props)
    /\ UNCHANGED <<options, refs, dragSession, sessionDrop, drops, calls, lastGetOp,
                   dragStateOptions, dropCollectionOptions>>

useDroppableCollection(props) ==
    /\ dropCollectionOptions' = DroppableCollectionArgs(props)
    /\ UNCHANGED <<options, refs, dragSession, sessionDrop, drops, calls, lastGetOp,
                   dragStateOptions, dropStateOptions>>

(***************************************************************************)
(* The drag and drop events of one collection.                             *)
(***************************************************************************)
NoGetOp == [called |-> FALSE]

Init ==
    /\ options \in EventOptions
    /\ isDragging = FALSE
    /\ isInternalDropRef = FALSE
    /\ lastDropTarget = NullTarget
    /\ dragSession = "idle"
    /\ sessionDrop = NullTarget
    /\ drops = <<>>
    /\ calls = <<>>
    /\ lastGetOp = NoGetOp
    /\ dragStateOptions = EmptyObject
    /\ dropStateOptions = EmptyObject
    /\ dropCollectionOptions = EmptyObject

Next ==
    \/ onDragStart
    \/ onDragEnd
    \/ \E e \in DropEvents : onDrop(e)
    \/ \E d \in 1..MaxDrops : getTextResolved(d)

Spec == Init /\ [][Next]_vars

(***************************************************************************)
(* The default getDropOperation, called in and out of a drag.              *)
(***************************************************************************)
ValidatorObjects ==
    {EmptyObject} \cup {("isValidDropTarget" :> [tag |-> "pred", v |-> S]) : S \in {{}, {"k1"}}}

GetOpAcceptedObjects ==
    AcceptedObjects \cup {("acceptedDragTypes" :> [tag |-> "list", v |-> <<"text/plain">>])}

GetOpOptions ==
    {h @@ a @@ v : h \in OptionsOver(DropHandlerKeys), a \in GetOpAcceptedObjects,
                   v \in ValidatorObjects}

AllowedOperationLists == {<<>>, <<"move">>, <<"copy", "move">>}

InitGetOp ==
    /\ options \in GetOpOptions
    /\ isDragging = FALSE
    /\ isInternalDropRef = FALSE
    /\ lastDropTarget = NullTarget
    /\ dragSession = "idle"
    /\ sessionDrop = NullTarget
    /\ drops = <<>>
    /\ calls = <<>>
    /\ lastGetOp = NoGetOp
    /\ dragStateOptions = EmptyObject
    /\ dropStateOptions = EmptyObject
    /\ dropCollectionOptions = EmptyObject

NextGetOp ==
    \/ onDragStart
    \/ onDragEnd
    \/ \E target \in Targets, types \in SUBSET Types, ops \in AllowedOperationLists :
          getDropOperationCalled(target, types, ops)

SpecGetOp == InitGetOp /\ [][NextGetOp]_vars

(***************************************************************************)
(* The default onDrop of a collection whose caller provides any of the     *)
(* four drop handlers, in and out of a drag.                               *)
(***************************************************************************)
\* any of the four drop handlers, and the accepted types listed
AgreeOptions ==
    {h @@ ("acceptedDragTypes" :> [tag |-> "list", v |-> l]) :
        h \in OptionsOver(DropHandlerKeys), l \in AcceptedLists}

\* drops of one item that carries 'text/plain': a text item, whose text is
\* awaited, or a file item, for which onDrop dispatches at once
AgreeEvents ==
    {e \in DropEvents : Len(e.items) = 1 /\ e.items[1].types = {"text/plain"}}

InitAgree ==
    /\ options \in AgreeOptions
    /\ isDragging = FALSE
    /\ isInternalDropRef = FALSE
    /\ lastDropTarget = NullTarget
    /\ dragSession = "idle"
    /\ sessionDrop = NullTarget
    /\ drops = <<>>
    /\ calls = <<>>
    /\ lastGetOp = NoGetOp
    /\ dragStateOptions = EmptyObject
    /\ dropStateOptions = EmptyObject
    /\ dropCollectionOptions = EmptyObject

NextAgree ==
    \/ onDragStart
    \/ onDragEnd
    \/ \E e \in AgreeEvents : onDrop(e)
    \/ \E d \in 1..MaxDrops : getTextResolved(d)

SpecAgree == InitAgree /\ [][NextAgree]_vars

(***************************************************************************)
(* Every handler that reads or writes the refs: the drag wrappers, onDrop  *)
(* and the default getDropOperation.                                       *)
(***************************************************************************)
RefsOptions ==
    {c @@ ("acceptedDragTypes" :> [tag |-> "list", v |-> l]) :
        c \in CallbackObjects, l \in AcceptedLists}

InitRefs ==
    /\ options \in RefsOptions
    /\ isDragging = FALSE
    /\ isInternalDropRef = FALSE
    /\ lastDropTarget = NullTarget
    /\ dragSession = "idle"
    /\ sessionDrop = NullTarget
    /\ drops = <<>>
    /\ calls = <<>>
    /\ lastGetOp = NoGetOp
    /\ dragStateOptions = EmptyObject
    /\ dropStateOptions = EmptyObject
    /\ dropCollectionOptions = EmptyObject

NextRefs ==
    \/ onDragStart
    \/ onDragEnd
    \/ \E e \in AgreeEvents : onDrop(e)
    \/ \E d \in 1..MaxDrops : getTextResolved(d)
    \/ \E e \in AgreeEvents :
          getDropOperationCalled(e.target, e.items[1].types, <<e.dropOperation>>)

SpecRefs == InitRefs /\ [][NextRefs]_vars

(***************************************************************************)
(* The calls of the downstream hooks made through dragHooks and dropHooks. *)
(***************************************************************************)
MergedKeys == {"getItems", "getDropOperation", "onDrop", "onDragStart", "onDragEnd"}

\* every way the caller can leave out, pass undefined for, or supply each merged key
HookOptions ==
    {[k \in S |-> IF k \in U THEN Undefined ELSE UserFn(k)] :
        S \in SUBSET MergedKeys, U \in SUBSET MergedKeys}

\* what the component that uses the hooks passes: its own values for some keys
ComponentFn(k) == [tag |-> "fn", id |-> "component:" \o k]
ComponentProps(keys) == {[k \in S |-> ComponentFn(k)] : S \in SUBSET keys}

InitHooks ==
    /\ options \in HookOptions
    /\ isDragging = FALSE
    /\ isInternalDropRef = FALSE
    /\ lastDropTarget = NullTarget
    /\ dragSession = "idle"
    /\ sessionDrop = NullTarget
    /\ drops = <<>>
    /\ calls = <<>>
    /\ lastGetOp = NoGetOp
    /\ dragStateOptions = EmptyObject
    /\ dropStateOptions = EmptyObject
    /\ dropCollectionOptions = EmptyObject

NextHooks ==
    \/ \E props \in ComponentProps({"collection", "onDragStart"}) :
          useDraggableCollectionState(props)
    \/ \E props \in ComponentProps({"collection", "getDropOperation"}) :
          useDroppableCollectionState(props)
    \/ \E props \in ComponentProps({"keyboardDelegate", "onDrop"}) :
          useDroppableCollection(props)

SpecHooks == InitHooks /\ [][NextHooks]_vars

(***************************************************************************)
(* Properties.                                                             *)
(***************************************************************************)
Between(target) ==
    target.type = "item" /\ (target.dropPosition = "before" \/ target.dropPosition = "after")

\* the invocations of the default onDrop that the last step brought to their dispatch
Dispatched == {d \in 1..Len(drops) : drops[d].selected # "none"}

\* the caller's functions the last step called on behalf of invocation d, in order
CallsOf(d) == SelectSeq(calls, LAMBDA c : c.drop = d)
FnsOf(d) == [n \in 1..Len(CallsOf(d)) |-> CallsOf(d)[n].fn]

\* the caller's options give key k a value other than undefined
Provided(k) == k \in DOMAIN options /\ options[k] # Undefined

\* C1: the default onDrop, for a target between items, dispatches onReorder when
\* the drop began while a drag of this collection was in progress and onInsert
\* when it began while none was; it never calls onInsert for the former nor
\* onReorder for the latter.
C1_ReorderOrInsert ==
    \A d \in Dispatched :
        Between(drops[d].e.target) =>
            LET want == IF drops[d].began = "dragging" THEN "onReorder" ELSE "onInsert"
            IN  /\ drops[d].selected = want
                /\ Provided(want) => FnsOf(d) = <<want>>
                /\ \A n \in 1..Len(FnsOf(d)) : FnsOf(d)[n] \notin {"onReorder", "onInsert"} \ {want}

C1_Witness ==
    \E d \in Dispatched :
        /\ Between(drops[d].e.target)
        /\ drops[d].began = "dragging"
        /\ drops[d].dataList # <<>>
        /\ FnsOf(d) = <<"onReorder">>

\* C2: in every state after an onDragEnd and before the next onDragStart,
\* isDragging is false, lastDropTarget is null and isInternalDropRef is false.
C2_ResetAfterDragEnd ==
    dragSession = "ended" =>
        /\ isDragging = FALSE
        /\ lastDropTarget = NullTarget
        /\ isInternalDropRef = FALSE

\* C3: when onDragEnd or onDragStart ran while onDrop was suspended, so that
\* isDragging no longer has the value it had when onDrop began, the handler
\* dispatched for a target between items is still the one that value determines.
C3_ClassificationFixed ==
    \A d \in Dispatched :
        (Between(drops[d].e.target) /\ isDragging # (drops[d].began = "dragging")) =>
            /\ drops[d].selected = IF drops[d].began = "dragging" THEN "onReorder" ELSE "onInsert"
            /\ \A n \in 1..Len(FnsOf(d)) : FnsOf(d)[n] = drops[d].selected

C3_Witness ==
    \E d \in Dispatched :
        /\ Between(drops[d].e.target)
        /\ drops[d].began = "dragging"
        /\ isDragging = FALSE
        /\ FnsOf(d) = <<"onReorder">>

\* C4: the default getDropOperation returns allowedOperations[0] exactly when the
\* dragged types are accepted and (1) onInsert is provided, the target is between
\* items and no drag is in progress, or (2) onReorder is provided, the target is
\* between items and a drag is in progress, or (3) onRootDrop is provided, the
\* target is the root and no drag is in progress, or (4) onItemDrop is provided,
\* the target is on an item and isValidDropTarget is absent or accepts the key;
\* otherwise it returns 'cancel'.
C4_Accepted(types) ==
    LET a == Get(options, "acceptedDragTypes")
    IN  \/ a.tag = "undefined"
        \/ a.tag = "str" /\ a.v = "all"
        \/ a.tag = "list" /\ types \subseteq {a.v[n] : n \in 1..Len(a.v)}

C4_Allowed(target, dragging) ==
    \/ Provided("onInsert") /\ Between(target) /\ ~dragging
    \/ Provided("onReorder") /\ Between(target) /\ dragging
    \/ Provided("onRootDrop") /\ target = RootTarget /\ ~dragging
    \/ /\ Provided("onItemDrop")
       /\ target.type = "item"
       /\ target.dropPosition = "on"
       /\ (Provided("isValidDropTarget") => target.key \in options["isValidDropTarget"].v)

C4_DropOperation ==
    lastGetOp.called =>
        lastGetOp.result =
            IF C4_Accepted(lastGetOp.types) /\ C4_Allowed(lastGetOp.target, lastGetOp.isDragging)
            THEN (IF lastGetOp.allowedOperations = <<>> THEN "undefined"
                  ELSE Head(lastGetOp.allowedOperations))
            ELSE "cancel"

C4_Witness ==
    /\ lastGetOp.called
    /\ lastGetOp.isDragging
    /\ Between(lastGetOp.target)
    /\ lastGetOp.types # {}
    /\ Get(options, "acceptedDragTypes").tag = "list"
    /\ lastGetOp.result = "copy"

\* C5: with acceptedDragTypes left unspecified the default onDrop filters nothing
\* out: the items passed to the dispatched handler contain the text of every
\* dropped item of kind 'text', for each type the item carries.
C5_AcceptEverything ==
    \A n \in 1..Len(calls) :
        (calls[n].fn \in DropHandlerKeys /\ "acceptedDragTypes" \notin DOMAIN options) =>
            LET items == drops[calls[n].drop].e.items
                passed == calls[n].args[1]
            IN  \A i \in 1..Len(items) :
                    items[i].kind = "text" =>
                        \A t \in items[i].types :
                            \E m \in 1..Len(passed) : passed[m] = Text(i, t)

\* C6: the caller's onDragEnd receives (target, true) when a drop on this
\* collection began during the drag that is ending, target being that drop's
\* target, and (null, false) when no drop began during this drag.
C6_DragEndReportsThisDrag ==
    \A n \in 1..Len(calls) :
        calls[n].fn = "onDragEnd" =>
            calls[n].args = IF sessionDrop # NullTarget
                            THEN <<sessionDrop, TRUE>>
                            ELSE <<NullTarget, FALSE>>

\* C7: when the caller's options have no getItems, or have it with the value
\* undefined, useDraggableCollectionState receives a getItems that returns an
\* empty list; when the caller supplies getItems, it receives that function.
C7_DefaultGetItems ==
    dragStateOptions # EmptyObject =>
        Get(dragStateOptions, "getItems") =
            IF Provided("getItems") THEN options["getItems"] ELSE DefaultGetItems

\* C8: a getDropOperation supplied by the caller replaces the default given to
\* useDroppableCollectionState, and the default is given only if the caller's
\* options have none; the onDrop given to useDroppableCollection and the
\* onDragStart and onDragEnd given to useDraggableCollectionState are always
\* the hook's own wrappers.
C8_OverridePrecedence ==
    /\ dropStateOptions # EmptyObject =>
          /\ Provided("getDropOperation") =>
                Get(dropStateOptions, "getDropOperation") = options["getDropOperation"]
          /\ Get(dropStateOptions, "getDropOperation") = HookFn("getDropOperation") =>
                "getDropOperation" \notin DOMAIN options
    /\ dropCollectionOptions # EmptyObject =>
          Get(dropCollectionOptions, "onDrop") = HookFn("onDrop")
    /\ dragStateOptions # EmptyObject =>
          /\ Get(dragStateOptions, "onDragStart") = HookFn("onDragStart")
          /\ Get(dragStateOptions, "onDragEnd") = HookFn("onDragEnd")

C8_Witness ==
    /\ Provided("getDropOperation") /\ Provided("onDrop") /\ Provided("onDragStart")
    /\ Get(dropStateOptions, "getDropOperation") = UserFn("getDropOperation")
    /\ Get(dropCollectionOptions, "onDrop") = HookFn("onDrop")
    /\ Get(dragStateOptions, "onDragStart") = HookFn("onDragStart")

\* C9: an invocation of the default onDrop that runs to completion calls exactly
\* one of onRootDrop, onItemDrop, onReorder, onInsert, exactly once: onRootDrop
\* for the root, else onItemDrop for a drop on an item, else onReorder for an
\* internal drop, else onInsert; while it is suspended it calls nothing.
C9_Precedence(rec) ==
    IF rec.e.target = RootTarget THEN "onRootDrop"
    ELSE IF rec.e.target.dropPosition = "on" THEN "onItemDrop"
    ELSE IF rec.began = "dragging" THEN "onReorder"
    ELSE "onInsert"

C9_ExactlyOneHandler ==
    \A d \in 1..Len(drops) :
        /\ (drops[d].pc = "done" /\ ~Provided("onDrop")) => FnsOf(d) = <<C9_Precedence(drops[d])>>
        /\ drops[d].pc # "done" => FnsOf(d) = <<>>

C9_Witness ==
    \E d \in 1..Len(drops) :
        /\ drops[d].pc = "done"
        /\ ~Provided("onDrop")
        /\ drops[d].began = "dragging"
        /\ drops[d].e.target = ItemTarget("k1", "on")
        /\ drops[d].dataList # <<>>
        /\ FnsOf(d) = <<"onItemDrop">>

\* C10: when the caller supplies onDrop, a drop calls it exactly once with the
\* event, calls none of onInsert, onReorder, onRootDrop, onItemDrop, reads no
\* item text, and is recorded in isInternalDropRef and lastDropTarget, so that
\* the onDragEnd of the drag it began in reports it.
C10_UserOnDrop ==
    Provided("onDrop") =>
        /\ \A n \in 1..Len(calls) : calls[n].fn \notin DropHandlerKeys
        /\ \A d \in 1..Len(drops) :
              /\ drops[d].pc = "done"
              /\ drops[d].dataList = <<>>
              /\ Len(CallsOf(d)) = 1
              /\ CallsOf(d)[1].fn = "onDrop"
              /\ CallsOf(d)[1].args = <<drops[d].e>>
              /\ isInternalDropRef = isDragging
              /\ lastDropTarget = drops[d].e.target
        /\ \A n \in 1..Len(calls) :
              (calls[n].fn = "onDragEnd" /\ sessionDrop # NullTarget) =>
                  calls[n].args = <<sessionDrop, TRUE>>

C10_Witness ==
    /\ Provided("onDrop")
    /\ \E d \in 1..Len(drops) :
          /\ drops[d].began = "dragging"
          /\ FnsOf(d) = <<"onDrop">>
          /\ isInternalDropRef
          /\ lastDropTarget = drops[d].e.target

\* C11: with acceptedDragTypes an explicit list, the items the default onDrop
\* passes to the dispatched handler are exactly, for each dropped item in event
\* order and each accepted type in list order, the text of that item for that
\* type when the item is of kind 'text' and carries the type; other items and
\* other types contribute nothing.
C11_ItemTexts(i, item, list) ==
    IF item.kind = "text"
    THEN LET carried == SelectSeq(list, LAMBDA t : t \in item.types)
         IN  [n \in 1..Len(carried) |-> Text(i, carried[n])]
    ELSE <<>>

RECURSIVE C11_Texts(_, _, _)
C11_Texts(items, list, i) ==
    IF i > Len(items) THEN <<>>
    ELSE C11_ItemTexts(i, items[i], list) \o C11_Texts(items, list, i + 1)

C12_DraggedTypes(e) == UNION {e.items[i].types : i \in 1..Len(e.items)}

C12_Agree ==
    \A d \in 1..Len(drops) :
        /\ (isDragging = (drops[d].began = "dragging")
            /\ getDropOperation(drops[d].e.target, C12_DraggedTypes(drops[d].e),
                                <<drops[d].e.dropOperation>>) # "cancel") =>
              /\ Provided(C9_Precedence(drops[d]))
              /\ drops[d].pc # "threw"
        /\ d \in Dispatched => drops[d].selected = C9_Precedence(drops[d])

C12_Witness ==
    \E d \in Dispatched :
        /\ isDragging
        /\ drops[d].began = "dragging"
        /\ Between(drops[d].e.target)
        /\ getDropOperation(drops[d].e.target, C12_DraggedTypes(drops[d].e),
                            <<drops[d].e.dropOperation>>) = "move"
        /\ ~Provided("onInsert")
        /\ FnsOf(d) = <<"onReorder">>

\* C13: isDragging is true in exactly the states that follow an onDragStart with
\* no later onDragEnd, whatever onDrop and getDropOperation ran in between; the
\* caller's onDragStart is called with isDragging already true; the caller's
\* onDragEnd is called with isDragging already false and with lastDropTarget
\* and isInternalDropRef not yet reset, and they are reset when onDragEnd returns.
C13_IsDraggingTracksDrag ==
    /\ isDragging = (dragSession = "dragging")
    /\ \A n \in 1..Len(calls) :
          /\ calls[n].fn = "onDragStart" => calls[n].refs.isDragging = TRUE
          /\ calls[n].fn = "onDragEnd" =>
                /\ calls[n].refs.isDragging = FALSE
                /\ sessionDrop # NullTarget =>
                      /\ calls[n].refs.lastDropTarget = sessionDrop
                      /\ calls[n].refs.isInternalDropRef = TRUE
                /\ lastDropTarget = NullTarget
                /\ isInternalDropRef = FALSE

C13_Witness ==
    /\ lastGetOp.called
    /\ lastGetOp.isDragging
    /\ \E n \in 1..Len(calls) :
          /\ calls[n].fn = "onDragEnd"
          /\ calls[n].refs.isDragging = FALSE
          /\ calls[n].refs.lastDropTarget = ItemTarget("k1", "before")
          /\ calls[n].refs.isInternalDropRef = TRUE
          /\ lastDropTarget = NullTarget

\* C14: when two invocations of the default onDrop overlap, the caller's
\* handlers are called in the order in which the drops began: no handler is
\* called for a drop while a drop that began earlier is still suspended.
C14_DispatchInBeginOrder ==
    \A d \in 1..Len(drops) :
        FnsOf(d) # <<>> => \A earlier \in 1..(d - 1) : ~IsSuspended(drops[earlier])

\* C15: a drop that begins after the onDragEnd of the drag that produced it is
\* treated as external: for a target between items the default onDrop
\* dispatches onInsert, not onReorder, and the drop leaves lastDropTarget set
\* to its target and isInternalDropRef false.
C15_DispatchedAsExternal ==
    \A d \in Dispatched :
        (drops[d].began = "ended" /\ Between(drops[d].e.target)) =>
            /\ drops[d].selected = "onInsert"
            /\ \A n \in 1..Len(FnsOf(d)) : FnsOf(d)[n] = "onInsert"

\* the step is the beginning of an onDrop, the step is an onDragEnd
C15_DropBegins == Len(drops') = Len(Suspended) + 1
C15_DragEnds == dragSession = "dragging" /\ dragSession' = "ended"

\* the drop that begins after the drag end records its target as an external drop
C15_Recorded ==
    (C15_DropBegins /\ dragSession = "ended") =>
        /\ lastDropTarget' = drops'[Len(drops')].e.target
        /\ isInternalDropRef' = FALSE

====
